---- MODULE Spec2Model ----
(***************************************************************************)
(* A model of the PEAC receipt core: the anti-replay nonce cache           *)
(* (archived/core/ed25519/python/nonce_cache.py), the low-level           *)
(* nonce-bound Ed25519 signer and verifier (core/ed25519/python/sign.py,   *)
(* packages/sdk-js/core/ed25519/python/verify.py,                          *)
(* archived/core/sdk/python/peac_sdk.py) and the signed receipt            *)
(* envelope of the command-line tool (cli/peac.py), and the bulk           *)
(* verification of the agent tool (adapters/langchain/tool.py), and the    *)
(* lite-mode tokens (archived/core/interop/lite_mode/python/token.py),     *)
(* and the circuit breaker and retry wrapper of the HTTP adapter           *)
(* (packages/adapters/camel/decorator.py).                                 *)
(***************************************************************************)
EXTENDS Integers, Sequences, FiniteSets, TLC

VARIABLES
    nonces,     \* NonceCache.nonces: nonce -> the clock value recorded for it
    now,        \* the wall clock, int(time.time() * 1000)
    accepts,    \* history: per nonce, the add() calls that returned True since the last clear()
    lastAdd,    \* history: the last NonceCache call, its inputs and its result
    pc,         \* per caller thread: the line of NonceCache.add it is about to run
    loc,        \* per caller thread: the locals of its NonceCache.add call
    signed,     \* the last call of sign(): its inputs and the signature it returned
    verOut,     \* the last call of verify(): its inputs and the value it returned
    keys,       \* PeacCLI.keys: the key store, kid -> key
    signOut,    \* the last call of sign_receipt: its inputs and its outcome
    verifyOut,  \* the last call of verify_receipt: its inputs and its result
    genOut,     \* the last call of generate_keypair: its input and what it returned
    bulkOut,    \* the last bulk_verify call of the agent tool: its inputs and what it returned
    issued_tokens, \* token.py _issued_tokens: the lite-mode tokens issued in this process
    returned,   \* history: the tokens generate_token has returned
    tokOut,     \* the last generate_token or validate_token call and what it returned
    breaker,    \* decorator.py _breaker: the CircuitBreaker object and its fields
    wall,       \* time.time() as the circuit breaker reads it, in seconds
    brOut,      \* history: the last CircuitBreaker.call, its inputs and its outcome
    wrapper,    \* a call of the peac_enforce wrapper: its position, attempt counter and outcome
    attemptOut  \* history: the last pass through the wrapper's loop and what happened in it

nonceVars == <<nonces, now, accepts, lastAdd>>
raceVars == <<pc, loc>>
sigVars == <<signed, verOut>>
envVars == <<keys, signOut, verifyOut, genOut>>
toolVars == <<bulkOut>>
tokenVars == <<issued_tokens, returned, tokOut>>
breakerVars == <<breaker, wall, brOut>>
enforceVars == <<wrapper, attemptOut>>
vars == <<nonces, now, accepts, lastAdd, pc, loc, signed, verOut, keys, signOut, verifyOut,
          genOut, bulkOut, issued_tokens, returned, tokOut,
          breaker, wall, brOut, wrapper, attemptOut>>

(***************************************************************************)
(* Bounds of the model.                                                    *)
(***************************************************************************)
StartTime == 1000000
MaxSmallTicks == 2
MaxBigTicks == 1
MaxMsgLen == 2
MaxBulk == 3
StartSeconds == 1000
MaxFailures == 7
MaxWaits == 2
MaxRetries == 2

Nonces == {"n1", "n2", "n3"}
Threads == {1, 2}

(***************************************************************************)
(* NonceCache                                                              *)
(***************************************************************************)
NONCE_TTL == 5 * 60

Abs(x) == IF x < 0 THEN -x ELSE x

\* the drifts between a claimed timestamp and the clock that callers try
Drifts == {-(NONCE_TTL * 1000) - 1, -(NONCE_TTL * 1000), -1, 0,
           NONCE_TTL * 1000, NONCE_TTL * 1000 + 1}

\* the drifts the racing callers try: inside and outside the window
RaceDrifts == {0, NONCE_TTL * 1000 + 1}

\* the clock moves between calls by one millisecond or by more than the window
TickSteps == {1, NONCE_TTL * 1000 + 1}

\* nonce_cache.py:18  nonce in self.nonces
InLedger(ledger, nonce) == nonce \in DOMAIN ledger

\* a window check that also rejects a drift of exactly the window
OutsideWindowClosed(clock, timestamp) == Abs(clock - timestamp) >= NONCE_TTL * 1000

\* nonce_cache.py:20  abs(now - int(timestamp)) > NONCE_TTL * 1000
OutsideWindow(clock, timestamp) == Abs(clock - timestamp) > NONCE_TTL * 1000

\* an add() that forgets to record the nonce
RecordNothing(ledger, nonce, clock) == ledger

\* nonce_cache.py:22  self.nonces[nonce] = now
Record(ledger, nonce, clock) ==
    [x \in DOMAIN ledger \cup {nonce} |-> IF x = nonce THEN clock ELSE ledger[x]]

\* nonce_cache.py:15-24  the value add() returns
AddReturns(ledger, clock, nonce, timestamp) ==
    IF InLedger(ledger, nonce) THEN FALSE
    ELSE IF OutsideWindow(clock, timestamp) THEN FALSE
    ELSE TRUE

\* an add() that records a new nonce before it looks at the timestamp
AddLedgerEager(ledger, clock, nonce, timestamp) ==
    IF InLedger(ledger, nonce) THEN ledger ELSE Record(ledger, nonce, clock)

\* nonce_cache.py:15-24  the ledger add() leaves
AddLedger(ledger, clock, nonce, timestamp) ==
    IF AddReturns(ledger, clock, nonce, timestamp)
    THEN Record(ledger, nonce, clock)
    ELSE ledger

\* a clear() that leaves the ledger as it found it
ClearLedgerKept == nonces

\* nonce_cache.py:26-27  the ledger clear() leaves
ClearLedger == << >>

(***************************************************************************)
(* Strings, bytes and Ed25519                                              *)
(***************************************************************************)
\* the characters of the messages and nonces callers use
Alphabet == {"a", "1"}

\* the strings over Alphabet of length at most n
StringsUpTo(n) == UNION {[1..k -> Alphabet] : k \in 0..n}

Messages == StringsUpTo(MaxMsgLen)
NonceStrings == StringsUpTo(1)
Timestamps == {1, 12}

\* the signing seeds and the public key each derives
Seeds == {"seed1", "seed2"}
PublicOf(seed) == IF seed = "seed1" THEN "pub1" ELSE "pub2"
PublicKeys == {PublicOf(seed) : seed \in Seeds}

DigitChar == <<"0", "1", "2", "3", "4", "5", "6", "7", "8", "9">>

\* Python str(int): the decimal string of an integer
RECURSIVE Str(_)
Str(n) ==
    IF n < 0 THEN <<"-">> \o Str(-n)
    ELSE IF n < 10 THEN <<DigitChar[n + 1]>>
    ELSE Str(n \div 10) \o <<DigitChar[(n % 10) + 1]>>

\* the UTF-8 byte of a character of the model (all of them ASCII)
Utf8Byte(c) ==
    CASE c = "a" -> 97
      [] c = "b" -> 98
      [] c = "-" -> 45
      [] c = "|" -> 124
      [] c = ":" -> 58
      [] OTHER -> 48 + (CHOOSE d \in 0..9 : DigitChar[d + 1] = c)

\* Python str.encode('utf-8')
Encode(str) == [i \in 1..Len(str) |-> Utf8Byte(str[i])]

\* base64.b64encode(...).decode() and base64.b64decode: the text form of a value
B64Encode(raw) == [b64 |-> raw]
B64Decode(text) == text.b64

\* nacl SigningKey(seed).sign(bytes).signature: Ed25519 is deterministic, and
\* a signature is bound to the signing key and to the exact bytes signed
Ed25519Sign(seed, bytes) == [signer |-> PublicOf(seed), over |-> bytes]

\* nacl VerifyKey(publicKey).verify(bytes, signature): only the signature the
\* key's seed makes over these bytes passes; FALSE stands for BadSignatureError
Ed25519Verify(publicKey, bytes, signature) ==
    signature = [signer |-> publicKey, over |-> bytes]

(***************************************************************************)
(* The low-level nonce-bound scheme: sign.py and verify.py                 *)
(***************************************************************************)
\* sign.py:12  combined = (message + nonce + str(timestamp)).encode('utf-8')
SignCombined(message, nonce, timestamp) == Encode(message \o nonce \o Str(timestamp))

\* sign.py:10-14  sign(message, private_key_b64, nonce, timestamp)
sign(message, private_key_b64, nonce, timestamp) ==
    B64Encode(Ed25519Sign(B64Decode(private_key_b64),
                          SignCombined(message, nonce, timestamp)))

\* a verifier that joins the fields with a separator
VerifyCombinedSeparated(message, nonce, timestamp) ==
    Encode(message \o <<"|">> \o nonce \o <<"|">> \o Str(timestamp))

\* a verifier that leaves the message out of the signed bytes
VerifyCombinedNoMessage(message, nonce, timestamp) == Encode(nonce \o Str(timestamp))

\* a verifier that states the length of the message ahead of it
VerifyCombinedLengthPrefixed(message, nonce, timestamp) ==
    Encode(Str(Len(message)) \o message \o nonce \o Str(timestamp))

\* verify.py:13  combined = (message + nonce + str(timestamp)).encode('utf-8')
VerifyCombined(message, nonce, timestamp) == Encode(message \o nonce \o Str(timestamp))

\* verify.py:11-18  verify(message, signature_b64, public_key_b64, nonce, timestamp)
verify(message, signature_b64, public_key_b64, nonce, timestamp) ==
    Ed25519Verify(B64Decode(public_key_b64),
                  VerifyCombined(message, nonce, timestamp),
                  B64Decode(signature_b64))

\* peac_sdk.py:15,24  full_message = f"{message}|{nonce}|{timestamp}".encode()
FullMessage(message, nonce, timestamp) ==
    Encode(message \o <<"|">> \o nonce \o <<"|">> \o Str(timestamp))

\* peac_sdk.py:10-17  sign_message(message, private_key_b64, nonce, timestamp)
sign_message(message, private_key_b64, nonce, timestamp) ==
    B64Encode(Ed25519Sign(B64Decode(private_key_b64),
                          FullMessage(message, nonce, timestamp)))

\* peac_sdk.py:19-29  verify_message(message, signature_b64, public_key_b64, nonce, timestamp)
verify_message(message, signature_b64, public_key_b64, nonce, timestamp) ==
    Ed25519Verify(B64Decode(public_key_b64),
                  FullMessage(message, nonce, timestamp),
                  B64Decode(signature_b64))

NoSign == [op |-> "none"]
NoVerify == [op |-> "none"]

(***************************************************************************)
(* Python values, JSON and the jwcrypto objects used by cli/peac.py        *)
(***************************************************************************)
\* Python values carry their type: str, dict, None
PyStr(s) == [t |-> "str", v |-> s]
PyDict(d) == [t |-> "dict", v |-> d]
PyNone == [t |-> "none"]

\* the outcome of a call: a value, or an exception with its message
Ok(v) == [ok |-> TRUE, v |-> v]
Raise(e) == [ok |-> FALSE, err |-> e]

\* dict.get(key): None when the key is absent
DictGet(d, key) == IF key \in DOMAIN d.v THEN d.v[key] ELSE PyNone

\* Python truth of a value: None and the empty string are false
Truthy(x) == x.t # "none" /\ ~(x.t = "str" /\ x.v = "")

\* json_encode(obj) / json.dumps(obj): a str holding the JSON text of obj
JsonText(obj) == [t |-> "json", v |-> obj]

\* json.loads(s): the argument must be a str, bytes or bytearray; the JSON
\* text of an object loads as a dict
json_loads(s) ==
    IF s.t = "json" THEN Ok(PyDict(s.v))
    ELSE IF s.t = "str" THEN Raise("Expecting value")
    ELSE Raise("the JSON object must be str, bytes or bytearray, not dict")

\* base64url of one segment of a compact serialization
B64UrlEncode(raw) == [b64u |-> raw]
B64UrlDecode(seg) == seg.b64u

\* a segment with one character changed: it decodes to other bytes
AlterSegment(seg) == [b64u |-> [altered |-> seg.b64u]]

\* the JWS signing input: base64url(header) "." base64url(payload)
SigningInput(headerSeg, payloadSeg) == <<headerSeg, payloadSeg>>

(***************************************************************************)
(* Keys: key descriptors, jwk.JWK objects, the key store                   *)
(***************************************************************************)
Kids == {"k1", "k2", "k3"}

\* a key descriptor of a keys file: type, curve, public part x, private part d
Descriptor(kty, crv, x, d) == [kty |-> kty, crv |-> crv, x |-> x, d |-> d]

\* jwk.JWK(**key_info): the key object of a descriptor
JWK(key_info) == [x |-> key_info.x, d |-> key_info.d]

\* a key that can sign carries its private part
CanSign(key) == key.d # "none"

\* the keys files the tool is started with
KeysFiles ==
    { [k1 |-> Descriptor("OKP", "Ed25519", "pub1", "seed1"),
       k2 |-> Descriptor("OKP", "Ed25519", "pub2", "none")],
      [k1 |-> Descriptor("OKP", "Ed25519", "pub1", "seed1"),
       k2 |-> Descriptor("EC", "P-256", "pub2", "seed2")],
      [k2 |-> Descriptor("OKP", "Ed25519", "pub2", "seed2"),
       k3 |-> Descriptor("OKP", "X25519", "pub1", "seed1")] }

\* the key sets a caller passes to verify_receipt: none, or kid -> descriptor
NoKeys == PyNone
CallerKeySets ==
    { NoKeys,
      PyDict([k1 |-> Descriptor("OKP", "Ed25519", "pub1", "none")]),
      PyDict([k1 |-> Descriptor("OKP", "Ed25519", "pub2", "none")]) }

\* a loader that stores the key of every descriptor, whatever its type
load_keys_unfiltered(store, key_data) ==
    [kid \in DOMAIN store \cup DOMAIN key_data |->
        IF kid \in DOMAIN key_data THEN JWK(key_data[kid]) ELSE store[kid]]

\* peac.py:46-49  load_keys: the entries a keys file adds to self.keys
load_keys(store, key_data) ==
    LET accepted == {kid \in DOMAIN key_data :
                        /\ key_data[kid].kty = "OKP"
                        /\ key_data[kid].crv = "Ed25519"}
    IN  [kid \in DOMAIN store \cup accepted |->
            IF kid \in accepted THEN JWK(key_data[kid]) ELSE store[kid]]

(***************************************************************************)
(* The receipt schema (PeacReceipt) and the receipts callers submit        *)
(***************************************************************************)
RequiredDicts == {"subject", "aipref", "enforcement"}
RequiredStrs == {"issued_at", "kid"}
OptionalDicts == {"payment", "ext"}

\* a schema that lets every payload pass
PeacReceiptAny(receipt) == TRUE

\* peac.py:21-29  PeacReceipt(**receipt): TRUE when validation passes
PeacReceipt(receipt) ==
    /\ \A f \in RequiredDicts : f \in DOMAIN receipt /\ receipt[f].t = "dict"
    /\ \A f \in RequiredStrs : f \in DOMAIN receipt /\ receipt[f].t = "str"
    /\ \A f \in OptionalDicts :
          f \in DOMAIN receipt => receipt[f].t \in {"dict", "none"}

\* a schema-valid receipt whose kid field is k
BaseReceipt(k) ==
    [subject |-> PyDict("uri"), aipref |-> PyDict("allowed"),
     enforcement |-> PyDict("granted"), issued_at |-> PyStr("2025-01-01T00:00:00Z"),
     kid |-> PyStr(k)]

\* a dict without one of its keys
Without(d, key) == [f \in DOMAIN d \ {key} |-> d[f]]

\* a dict with one key set
With(d, key, value) == [f \in DOMAIN d \cup {key} |-> IF f = key THEN value ELSE d[f]]

\* a value of the other type than the one the schema asks of field f
WrongTyped(f) == IF f \in RequiredDicts THEN PyStr("text") ELSE PyDict("nested")

\* the receipts callers submit: valid ones, one with an optional field, and
\* for every required field one without it and one with it of the wrong type
Receipts ==
    {BaseReceipt(k) : k \in {"k1", "k2"}}
    \cup {With(BaseReceipt("k1"), "payment", PyDict("x402"))}
    \cup {Without(BaseReceipt("k1"), f) : f \in RequiredDicts \cup RequiredStrs}
    \cup {With(BaseReceipt("k1"), f, WrongTyped(f)) : f \in RequiredDicts \cup RequiredStrs}

(***************************************************************************)
(* jws.JWS: compact serialization, deserialization, its properties         *)
(***************************************************************************)
\* token.serialize(compact=True): header, payload and signature segments
Compact(header, payloadText, signature) ==
    <<B64UrlEncode(JsonText(header)), B64UrlEncode(payloadText), B64UrlEncode(signature)>>

\* JWS(payload).add_signature(key, alg='EdDSA', protected=header): signing
\* needs the private part of the key
add_signature(key, header, payloadText) ==
    IF ~CanSign(key) THEN Raise("key cannot sign")
    ELSE Ok(Compact(header, payloadText,
                    Ed25519Sign(key.d, SigningInput(B64UrlEncode(JsonText(header)),
                                                    B64UrlEncode(payloadText)))))

\* JWS().deserialize(raw_jws) with no key: splits the compact form into
\* exactly three segments and decodes them; it verifies nothing, so the
\* token object is left unverified
deserialize(raw_jws) ==
    IF Len(raw_jws) # 3 THEN Raise("Invalid JWS Object [Invalid format]")
    ELSE Ok([protected |-> B64UrlDecode(raw_jws[1]),
             payload |-> B64UrlDecode(raw_jws[2]),
             signature |-> B64UrlDecode(raw_jws[3]),
             valid |-> FALSE])

\* JWS.jose_header: jwcrypto decodes the protected header itself and hands
\* back the merged header as a dict, not as JSON text
jose_header(token) == PyDict(token.protected.v)

\* JWS.payload: jwcrypto gives the payload only after a successful verify()
\* and raises InvalidJWSOperation on a token that was not verified
payload(token) ==
    IF ~token.valid THEN Raise("Payload not verified") ELSE Ok(token.payload)

(***************************************************************************)
(* PeacCLI.sign_receipt and PeacCLI.verify_receipt                         *)
(***************************************************************************)
\* peac.py:90  protected={'alg': 'EdDSA', 'kid': kid}
ProtectedHeader(kid) == [alg |-> PyStr("EdDSA"), kid |-> PyStr(kid)]

\* a signer that leaves the payload's kid as the caller wrote it
ForceKidKept(receipt, kid) == receipt

\* peac.py:85  receipt['kid'] = kid
ForceKid(receipt, kid) == With(receipt, "kid", PyStr(kid))

\* peac.py:55-71  generate_keypair(kid): the descriptors of a fresh key pair,
\* seed being the private key JWK.generate drew
generate_keypair(kid, seed) ==
    [kid |-> kid,
     private_key |-> Descriptor("OKP", "Ed25519", PublicOf(seed), seed),
     public_key |-> Descriptor("OKP", "Ed25519", PublicOf(seed), "none")]

\* peac.py:73-92  sign_receipt(receipt, kid): the compact envelope, or the error raised
sign_receipt(store, receipt, kid) ==
    IF kid \notin DOMAIN store THEN Raise("Key not found")
    ELSE IF ~PeacReceipt(receipt) THEN Raise("Invalid receipt schema")
    ELSE add_signature(store[kid], ProtectedHeader(kid), JsonText(ForceKid(receipt, kid)))

\* peac.py:73-92  the caller's receipt dict after sign_receipt: line 85 writes to it
ReceiptAfterSign(store, receipt, kid) ==
    IF kid \in DOMAIN store /\ PeacReceipt(receipt) THEN ForceKid(receipt, kid) ELSE receipt

\* a failure that leaves verify_receipt as an exception instead of a result
FailureRaised(error, clock) == Raise(error)

\* a failure result that reports the schema as checked
FailureWithSchema(error, clock) ==
    [valid |-> FALSE, error |-> error,
     verification |-> [signature |-> "invalid", schema |-> "valid", timestamp |-> clock]]

\* peac.py:143-151  the result of a failed verification
Failure(error, clock) ==
    [valid |-> FALSE, error |-> error,
     verification |-> [signature |-> "invalid", timestamp |-> clock]]

\* peac.py:131-141  the result of a successful verification
Success(protected_header, receipt_data, kid, clock) ==
    [valid |-> TRUE, header |-> protected_header, payload |-> receipt_data,
     verification |-> [signature |-> "valid", schema |-> "valid",
                       timestamp |-> clock, key_id |-> kid]]

\* peac.py:110  keys and kid in keys
InCallerKeys(callerKeys, kid) ==
    callerKeys.t = "dict" /\ DOMAIN callerKeys.v # {} /\ kid \in DOMAIN callerKeys.v

\* peac.py:108-118  the verification key: the caller's key first, then the store's
ResolveKey(store, callerKeys, kid) ==
    IF InCallerKeys(callerKeys, kid) THEN Ok(JWK(callerKeys.v[kid]))
    ELSE IF kid \in DOMAIN store THEN Ok(store[kid])
    ELSE Raise("Verification key not found")

\* peac.py:94-151  verify_receipt(jws_token, keys). Every exception of the
\* try body becomes a Failure result (lines 143-151). The body resolves a
\* verification key but has no call that verifies the token with it.
verify_receipt(store, jws_token, callerKeys, clock) ==
    LET parsed == deserialize(jws_token)
    IN
    IF ~parsed.ok THEN Failure(parsed.err, clock) ELSE
    LET token == parsed.v
        loaded == json_loads(jose_header(token))
    IN
    IF ~loaded.ok THEN Failure(loaded.err, clock) ELSE
    LET protected_header == loaded.v
        kid == DictGet(protected_header, "kid")
    IN
    IF ~Truthy(kid) THEN Failure("Missing kid in JWS header", clock) ELSE
    LET verification_key == ResolveKey(store, callerKeys, kid.v)
    IN
    IF ~verification_key.ok THEN Failure(verification_key.err, clock) ELSE
    LET bytes == payload(token)
    IN
    IF ~bytes.ok THEN Failure(bytes.err, clock) ELSE
    LET decoded == json_loads(bytes.v)
    IN
    IF ~decoded.ok THEN Failure(decoded.err, clock) ELSE
    LET receipt_data == decoded.v
    IN
    IF ~PeacReceipt(receipt_data.v) THEN Failure("validation error for PeacReceipt", clock)
    ELSE IF DictGet(receipt_data, "kid") # kid THEN Failure("Kid mismatch", clock)
    ELSE Success(protected_header.v, receipt_data.v, kid.v, clock)

NoSignReceipt == [op |-> "none"]
NoVerifyReceipt == [op |-> "none"]
NoGenerate == [op |-> "none"]
NoBulkVerify == [op |-> "none"]
NoTokenCall == [op |-> "none"]

(***************************************************************************)
(* CircuitBreaker (decorator.py)                                           *)
(***************************************************************************)
\* decorator.py:16  the defaults of CircuitBreaker.__init__
DefaultThreshold == 5
DefaultTimeout == 30

\* decorator.py:16-20  CircuitBreaker(threshold, timeout)
CircuitBreaker(threshold, timeout) ==
    [threshold |-> threshold, timeout |-> timeout, failures |-> 0, last_fail_time |-> 0]

\* a breaker that opens only above the threshold
is_open_above(self, clock) ==
    self.failures > self.threshold /\ clock - self.last_fail_time < self.timeout

\* a breaker that is still open when exactly the timeout has passed
is_open_through(self, clock) ==
    self.failures >= self.threshold /\ clock - self.last_fail_time <= self.timeout

\* decorator.py:22-24  CircuitBreaker.is_open
is_open(self, clock) ==
    self.failures >= self.threshold /\ clock - self.last_fail_time < self.timeout

\* a breaker that counts the calls it rejects as failures
breaker_call_counting_rejections(self, outcome, clock) ==
    IF is_open(self, clock)
    THEN [self |-> [self EXCEPT !.failures = @ + 1],
          result |-> Raise("Circuit breaker open"), invoked |-> FALSE]
    ELSE IF outcome.ok
    THEN [self |-> [self EXCEPT !.failures = 0], result |-> outcome, invoked |-> TRUE]
    ELSE [self |-> [self EXCEPT !.failures = @ + 1, !.last_fail_time = clock],
          result |-> outcome, invoked |-> TRUE]

\* decorator.py:26-37  CircuitBreaker.call(func): outcome is what func() does
\* when it is invoked; gives the breaker afterwards, what call returns or
\* raises, and whether func was invoked
breaker_call(self, outcome, clock) ==
    IF is_open(self, clock)
    THEN [self |-> self, result |-> Raise("Circuit breaker open"), invoked |-> FALSE]
    ELSE IF outcome.ok
    THEN [self |-> [self EXCEPT !.failures = 0], result |-> outcome, invoked |-> TRUE]
    ELSE [self |-> [self EXCEPT !.failures = @ + 1, !.last_fail_time = clock],
          result |-> outcome, invoked |-> TRUE]

\* no call of the breaker yet: no failure streak, no failure time
NoBreakerCall == [op |-> "none", streak |-> 0, failedAt |-> 0]

(***************************************************************************)
(* peac_enforce (decorator.py): one pass through the wrapper's loop        *)
(***************************************************************************)
\* decorator.py:52-56  what requests.post(.../enforce) does when it is sent:
\* it raises, or returns a response with a status and a body that is or is
\* not a JSON object
EnforceReplies ==
    {Raise("ConnectionError"), Ok([status |-> 200, json |-> TRUE])}
    \cup {Ok([status |-> st, json |-> j]) : st \in {402, 500}, j \in BOOLEAN}

\* decorator.py:67  what the wrapped request function does: it raises, or
\* returns a response with or without a PEAC-Receipt header
RequestReplies == {Raise("request failed"), Ok([receipt |-> FALSE]), Ok([receipt |-> TRUE])}

\* decorator.py:73-80  what the post to /verify does
VerifyReplies == {"valid", "raises"}

\* decorator.py:59,63  enforce_response.json(), and reading the problem's detail
response_json(response) ==
    IF response.json THEN Ok("problem") ELSE Raise("JSONDecodeError")

\* decorator.py:50-96  one pass through the loop body. Gives the breaker
\* afterwards, how the pass ends (return, raise, retry), the value returned
\* or the error, and which of the calls were made.
wrapper_attempt(self, attempt, max_retries, enforce, request, verifying, clock) ==
    LET guarded == breaker_call(self, enforce, clock)
        \* lines 90-96: the except Exception branch
        Failed(e, requested) ==
            [breaker |-> guarded.self,
             next |-> IF attempt >= max_retries THEN "raise" ELSE "retry",
             out |-> Raise(e), sent |-> guarded.invoked, requested |-> requested,
             verified |-> FALSE]
    IN
    IF ~guarded.result.ok THEN Failed(guarded.result.err, FALSE)
    ELSE IF guarded.result.v.status = 402
    THEN IF ~response_json(guarded.result.v).ok
         THEN Failed(response_json(guarded.result.v).err, FALSE)
         ELSE [breaker |-> guarded.self, next |-> "raise",
               out |-> Raise("PEACPaymentRequired"), sent |-> TRUE,
               requested |-> FALSE, verified |-> FALSE]
    ELSE IF guarded.result.v.status >= 400
    THEN IF ~response_json(guarded.result.v).ok
         THEN Failed(response_json(guarded.result.v).err, FALSE)
         ELSE Failed("Enforcement failed", FALSE)
    ELSE IF ~request.ok THEN Failed(request.err, TRUE)
    ELSE [breaker |-> guarded.self, next |-> "return",
          out |-> Ok([receipt |-> request.v.receipt,
                      peac_verified |-> IF ~request.v.receipt THEN "unset"
                                        ELSE IF verifying = "valid" THEN "True"
                                        ELSE "False"]),
          sent |-> TRUE, requested |-> TRUE, verified |-> request.v.receipt]

\* no wrapper call is under way; none has been made
IdleWrapper == [pc |-> "idle", attempt |-> 0, max_retries |-> 0, tries |-> 0]
NoAttempt == [op |-> "none"]

(***************************************************************************)
(* The state after construction, and the NonceCache operations             *)
(***************************************************************************)
NoCall == [op |-> "none", nonce |-> "", timestamp |-> 0, now |-> 0,
           known |-> FALSE, prior |-> 0, cleared |-> -1, ret |-> FALSE]

IdleLocals == [nonce |-> "", timestamp |-> 0, now |-> 0, ret |-> FALSE]

\* NonceCache.__init__ (nonce_cache.py:12-13): an empty ledger;
\* PeacCLI.__init__ (peac.py:35-36): an empty key store
Init ==
    /\ nonces = << >>
    /\ now = StartTime
    /\ accepts = [n \in Nonces |-> 0]
    /\ lastAdd = NoCall
    /\ pc = [t \in Threads |-> "idle"]
    /\ loc = [t \in Threads |-> IdleLocals]
    /\ signed = NoSign
    /\ verOut = NoVerify
    /\ keys = << >>
    /\ signOut = NoSignReceipt
    /\ verifyOut = NoVerifyReceipt
    /\ genOut = NoGenerate
    /\ bulkOut = NoBulkVerify
    /\ issued_tokens = {}
    /\ returned = {}
    /\ tokOut = NoTokenCall
    /\ breaker = CircuitBreaker(DefaultThreshold, DefaultTimeout)
    /\ wall = StartSeconds
    /\ brOut = NoBreakerCall
    /\ wrapper = IdleWrapper
    /\ attemptOut = NoAttempt

\* the clock values the model lets the clock reach
ClockValues ==
    {StartTime + i + j * (NONCE_TTL * 1000 + 1) : i \in 0..MaxSmallTicks, j \in 0..MaxBigTicks}

\* a clock whose passing evicts the entries older than the window
TickEvicting ==
    /\ \E d \in TickSteps :
          /\ now + d \in ClockValues
          /\ now' = now + d
          /\ nonces' = [n \in {x \in DOMAIN nonces : now + d - nonces[x] <= NONCE_TTL * 1000}
                          |-> nonces[n]]
    /\ UNCHANGED <<accepts, lastAdd, raceVars, sigVars, envVars, toolVars, tokenVars, breakerVars, enforceVars>>

\* time passes between calls
Tick ==
    /\ \E d \in TickSteps :
          /\ now + d \in ClockValues
          /\ now' = now + d
    /\ UNCHANGED <<nonces, accepts, lastAdd, raceVars, sigVars, envVars, toolVars, tokenVars, breakerVars, enforceVars>>

\* one whole call of NonceCache.add by a single caller
Add ==
    /\ \E nonce \in Nonces, d \in Drifts :
          LET timestamp == now + d
              ret == AddReturns(nonces, now, nonce, timestamp)
          IN  /\ nonces' = AddLedger(nonces, now, nonce, timestamp)
              /\ accepts' = IF ret THEN [accepts EXCEPT ![nonce] = @ + 1] ELSE accepts
              /\ lastAdd' = [op |-> "add", nonce |-> nonce, timestamp |-> timestamp,
                             now |-> now, known |-> InLedger(nonces, nonce),
                             prior |-> accepts[nonce],
                             cleared |-> IF lastAdd.op = "clear" THEN lastAdd.prior ELSE -1,
                             ret |-> ret]
    /\ UNCHANGED <<now, raceVars, sigVars, envVars, toolVars, tokenVars, breakerVars, enforceVars>>

\* one whole call of NonceCache.clear
Clear ==
    /\ nonces' = ClearLedger
    /\ accepts' = [n \in Nonces |-> 0]
    /\ lastAdd' = [NoCall EXCEPT !.op = "clear", !.prior = Cardinality(DOMAIN nonces)]
    /\ UNCHANGED <<now, raceVars, sigVars, envVars, toolVars, tokenVars, breakerVars, enforceVars>>

NextNonce == Tick \/ Add \/ Clear

SpecNonce == Init /\ [][NextNonce]_vars

(***************************************************************************)
(* NonceCache.add called from two threads: one step per line of add().     *)
(***************************************************************************)
\* the caller enters add(nonce, timestamp)
Call(t) ==
    /\ pc[t] = "idle"
    /\ \E nonce \in Nonces, d \in RaceDrifts :
          loc' = [loc EXCEPT ![t] = [IdleLocals EXCEPT !.nonce = nonce,
                                                       !.timestamp = now + d]]
    /\ pc' = [pc EXCEPT ![t] = "line16"]
    /\ UNCHANGED <<nonceVars, sigVars, envVars, toolVars, tokenVars, breakerVars, enforceVars>>

\* nonce_cache.py:16  now = int(time.time() * 1000)
ReadClock(t) ==
    /\ pc[t] = "line16"
    /\ loc' = [loc EXCEPT ![t].now = now]
    /\ pc' = [pc EXCEPT ![t] = "line18"]
    /\ UNCHANGED <<nonceVars, sigVars, envVars, toolVars, tokenVars, breakerVars, enforceVars>>

\* nonce_cache.py:18-19  if nonce in self.nonces: return False
CheckNonce(t) ==
    /\ pc[t] = "line18"
    /\ IF InLedger(nonces, loc[t].nonce)
       THEN /\ loc' = [loc EXCEPT ![t].ret = FALSE]
            /\ pc' = [pc EXCEPT ![t] = "done"]
       ELSE /\ pc' = [pc EXCEPT ![t] = "line20"]
            /\ UNCHANGED loc
    /\ UNCHANGED <<nonceVars, sigVars, envVars, toolVars, tokenVars, breakerVars, enforceVars>>

\* nonce_cache.py:20-21  if abs(now - int(timestamp)) > NONCE_TTL * 1000: return False
CheckWindow(t) ==
    /\ pc[t] = "line20"
    /\ IF OutsideWindow(loc[t].now, loc[t].timestamp)
       THEN /\ loc' = [loc EXCEPT ![t].ret = FALSE]
            /\ pc' = [pc EXCEPT ![t] = "done"]
       ELSE /\ pc' = [pc EXCEPT ![t] = "line22"]
            /\ UNCHANGED loc
    /\ UNCHANGED <<nonceVars, sigVars, envVars, toolVars, tokenVars, breakerVars, enforceVars>>

\* nonce_cache.py:22  self.nonces[nonce] = now
RecordNonce(t) ==
    /\ pc[t] = "line22"
    /\ nonces' = Record(nonces, loc[t].nonce, loc[t].now)
    /\ pc' = [pc EXCEPT ![t] = "line24"]
    /\ UNCHANGED <<now, accepts, lastAdd, loc, sigVars, envVars, toolVars, tokenVars, breakerVars, enforceVars>>

\* nonce_cache.py:24  return True
ReturnTrue(t) ==
    /\ pc[t] = "line24"
    /\ loc' = [loc EXCEPT ![t].ret = TRUE]
    /\ pc' = [pc EXCEPT ![t] = "done"]
    /\ UNCHANGED <<nonceVars, sigVars, envVars, toolVars, tokenVars, breakerVars, enforceVars>>

NextRace ==
    \/ Tick
    \/ \E t \in Threads : Call(t)
    \/ \E t \in Threads : ReadClock(t)
    \/ \E t \in Threads : CheckNonce(t)
    \/ \E t \in Threads : CheckWindow(t)
    \/ \E t \in Threads : RecordNonce(t)
    \/ \E t \in Threads : ReturnTrue(t)

SpecRace == Init /\ [][NextRace]_vars

(***************************************************************************)
(* Claims about NonceCache                                                 *)
(***************************************************************************)
\* C1: with no clear() in between, at most one add() of a nonce returns True:
\* the first add() of the nonce with an in-window timestamp returns True and
\* every add() of it after an accepted one returns False.
C1_AcceptedAtMostOnce ==
    /\ \A n \in Nonces : accepts[n] <= 1
    /\ lastAdd.op = "add" =>
          /\ (lastAdd.prior = 0 /\ Abs(lastAdd.now - lastAdd.timestamp) <= 300000
                 => lastAdd.ret)
          /\ (lastAdd.prior >= 1 => ~lastAdd.ret)

\* C1 witness: a second add() of an accepted nonce, in-window, was rejected
C1_Witness ==
    /\ lastAdd.op = "add"
    /\ lastAdd.prior = 1
    /\ Abs(lastAdd.now - lastAdd.timestamp) <= 300000
    /\ ~lastAdd.ret

\* C2: two callers racing add() on the same new nonce with in-window
\* timestamps: exactly one of them gets True.
C2_RaceExactlyOne ==
    \A t1, t2 \in Threads :
        (/\ t1 # t2
         /\ pc[t1] = "done" /\ pc[t2] = "done"
         /\ loc[t1].nonce = loc[t2].nonce
         /\ Abs(loc[t1].now - loc[t1].timestamp) <= 300000
         /\ Abs(loc[t2].now - loc[t2].timestamp) <= 300000)
        => (loc[t1].ret # loc[t2].ret)

\* C3: add() returns False whenever the drift exceeds 300000 ms, in the past
\* or in the future, known nonce or not; for a nonce not in the ledger it
\* returns True whenever the drift is at most 300000 ms.
C3_WindowDecides ==
    lastAdd.op = "add" =>
        /\ (Abs(lastAdd.now - lastAdd.timestamp) > 300000 => ~lastAdd.ret)
        /\ (~lastAdd.known /\ Abs(lastAdd.now - lastAdd.timestamp) <= 300000
               => lastAdd.ret)

\* C3 witness: a new nonce with a drift of exactly 300000 ms was accepted
\* after a known nonce and a new one were rejected for a drift of 300001 ms
C3_Witness ==
    /\ lastAdd.op = "add"
    /\ ~lastAdd.known
    /\ lastAdd.now - lastAdd.timestamp = 300000
    /\ lastAdd.ret
    /\ DOMAIN nonces # {lastAdd.nonce}

(***************************************************************************)
(* The low-level scheme: operations and claims                             *)
(***************************************************************************)
\* a caller signs a message; the verify history starts anew for the new signature
Sign ==
    /\ \E message \in Messages, seed \in Seeds, nonce \in NonceStrings,
          timestamp \in Timestamps :
          signed' = [op |-> "sign", message |-> message, seed |-> seed,
                     nonce |-> nonce, timestamp |-> timestamp,
                     signature |-> sign(message, B64Encode(seed), nonce, timestamp)]
    /\ verOut' = NoVerify
    /\ UNCHANGED <<nonceVars, raceVars, envVars, toolVars, tokenVars, breakerVars, enforceVars>>

\* a caller verifies the last signature against a message, key, nonce and timestamp
Verify ==
    /\ signed.op # "none"
    /\ \E message \in Messages, publicKey \in PublicKeys, nonce \in NonceStrings,
          timestamp \in Timestamps :
          verOut' = [op |-> "verify", message |-> message, publicKey |-> publicKey,
                     nonce |-> nonce, timestamp |-> timestamp, of |-> signed,
                     ret |-> verify(message, signed.signature, B64Encode(publicKey),
                                    nonce, timestamp)]
    /\ UNCHANGED <<nonceVars, raceVars, signed, envVars, toolVars, tokenVars, breakerVars, enforceVars>>

NextSig == Sign \/ Verify

SpecSig == Init /\ [][NextSig]_vars

LoadKeys ==
    /\ \E key_data \in KeysFiles : keys' = load_keys(keys, key_data)
    /\ UNCHANGED <<nonceVars, raceVars, sigVars, signOut, verifyOut, genOut, toolVars, tokenVars, breakerVars, enforceVars>>

\* peac.py:55-71  generate_keypair(kid); the sign and verify histories start anew
GenerateKeypair ==
    /\ \E kid \in Kids, seed \in Seeds :
          genOut' = [op |-> "generate", out |-> generate_keypair(kid, seed)]
    /\ signOut' = NoSignReceipt
    /\ verifyOut' = NoVerifyReceipt
    /\ UNCHANGED <<nonceVars, raceVars, sigVars, keys, toolVars, tokenVars, breakerVars, enforceVars>>

\* peac.py:73-92  sign_receipt(receipt, kid); the verify history starts anew
SignReceipt ==
    /\ \E receipt \in Receipts, kid \in Kids :
          signOut' = [op |-> "sign", receipt |-> receipt, kid |-> kid,
                      stored |-> kid \in DOMAIN keys,
                      out |-> sign_receipt(keys, receipt, kid),
                      after |-> ReceiptAfterSign(keys, receipt, kid)]
    /\ verifyOut' = NoVerifyReceipt
    /\ genOut' = NoGenerate
    /\ UNCHANGED <<nonceVars, raceVars, sigVars, keys, toolVars, tokenVars, breakerVars, enforceVars>>

\* the headers of the envelopes other parties make: with a kid, without one
ForeignHeaders == {ProtectedHeader(k) : k \in {"k1", "k2"}} \cup {[alg |-> PyStr("EdDSA")]}

\* the payloads of the envelopes other parties make
ForeignReceipts ==
    {BaseReceipt("k1"), BaseReceipt("k2"), Without(BaseReceipt("k1"), "subject")}

\* an envelope signed outside sign_receipt by the holder of a seed
ForeignSigned(header, receipt, seed) ==
    Compact(header, JsonText(receipt),
            Ed25519Sign(seed, SigningInput(B64UrlEncode(JsonText(header)),
                                           B64UrlEncode(JsonText(receipt)))))

\* an envelope with one character of its signature segment changed
TamperSignature(token) == <<token[1], token[2], AlterSegment(token[3])>>

\* an envelope cut to its first two segments
Truncate(token) == <<token[1], token[2]>>

\* the envelopes presented for verification
PresentedTokens ==
    LET signedOnes == {ForeignSigned(h, r, seed) :
                          h \in ForeignHeaders, r \in ForeignReceipts, seed \in Seeds}
                      \cup (IF signOut.op = "sign" /\ signOut.out.ok
                            THEN {signOut.out.v} ELSE {})
    IN  signedOnes
        \cup {TamperSignature(token) : token \in signedOnes}
        \cup {Truncate(token) : token \in signedOnes}

\* a verify_receipt that keeps the caller's keys in the store
VerifyReceiptKeeping ==
    /\ \E jws_token \in PresentedTokens, callerKeys \in CallerKeySets :
          /\ verifyOut' = [op |-> "verify", token |-> jws_token, keys |-> callerKeys,
                           result |-> verify_receipt(keys, jws_token, callerKeys, now)]
          /\ keys' = IF callerKeys.t = "dict"
                     THEN [kid \in DOMAIN keys \cup DOMAIN callerKeys.v |->
                              IF kid \in DOMAIN callerKeys.v THEN JWK(callerKeys.v[kid])
                              ELSE keys[kid]]
                     ELSE keys
    /\ genOut' = NoGenerate
    /\ UNCHANGED <<nonceVars, raceVars, sigVars, signOut, toolVars, tokenVars, breakerVars, enforceVars>>

\* peac.py:94-151  verify_receipt(jws_token, keys)
VerifyReceipt ==
    /\ \E jws_token \in PresentedTokens, callerKeys \in CallerKeySets :
          verifyOut' = [op |-> "verify", token |-> jws_token, keys |-> callerKeys,
                        result |-> verify_receipt(keys, jws_token, callerKeys, now)]
    /\ genOut' = NoGenerate
    /\ UNCHANGED <<nonceVars, raceVars, sigVars, keys, signOut, toolVars, tokenVars, breakerVars, enforceVars>>

NextEnvelope == LoadKeys \/ GenerateKeypair \/ SignReceipt \/ VerifyReceipt

SpecEnvelope == Init /\ [][NextEnvelope]_vars

(***************************************************************************)
(* The receipt envelope: what an envelope is, whatever the verifier says   *)
(***************************************************************************)
\* the envelope has three segments
ThreeParts(token) == Len(token) = 3

\* the kid of the envelope's protected header, None when it has none
HeaderKid(token) == DictGet(PyDict(B64UrlDecode(token[1]).v), "kid")

\* the payload of the envelope
PayloadOf(token) == B64UrlDecode(token[2]).v

\* the envelope's signature is the Ed25519 signature of its signing input under key
SignatureVerifies(token, key) ==
    Ed25519Verify(key.x, SigningInput(token[1], token[2]), B64UrlDecode(token[3]))

\* the key the documented lookup order gives: the caller's key set, then the store
DocumentedKey(store, callerKeys, kid) ==
    IF callerKeys.t = "dict" /\ kid \in DOMAIN callerKeys.v THEN JWK(callerKeys.v[kid])
    ELSE store[kid]

\* the envelope names a kid that the caller's key set or the store holds
Resolvable(store, callerKeys, token) ==
    /\ ThreeParts(token)
    /\ Truthy(HeaderKid(token))
    /\ \/ callerKeys.t = "dict" /\ HeaderKid(token).v \in DOMAIN callerKeys.v
       \/ HeaderKid(token).v \in DOMAIN store

\* the errors that name an invalid signature
SignatureInvalidErrors == {"signature invalid", "Verification failed for all signatures"}

\* the errors that name a schema-invalid payload
SchemaInvalidErrors == {"schema invalid", "validation error for PeacReceipt"}

(***************************************************************************)
(* Claims about verify_receipt                                             *)
(***************************************************************************)
\* C4: verify_receipt returns valid=True only if the signature verifies over
\* the signing input under the key resolved for the header kid; an envelope
\* whose signature segment was altered gets valid=False with an error that
\* names the signature as invalid.
C4_SignatureGate ==
    verifyOut.op = "verify" =>
        LET token == verifyOut.token
            result == verifyOut.result
        IN  /\ result.valid =>
                  /\ Resolvable(keys, verifyOut.keys, token)
                  /\ SignatureVerifies(token,
                        DocumentedKey(keys, verifyOut.keys, HeaderKid(token).v))
            /\ (/\ Resolvable(keys, verifyOut.keys, token)
                /\ ~SignatureVerifies(token,
                        DocumentedKey(keys, verifyOut.keys, HeaderKid(token).v)))
               => (~result.valid /\ result.error \in SignatureInvalidErrors)

\* C5: verifying what sign_receipt returned gives valid=True and the payload
\* that was submitted, with its kid field set to the signing kid.
C5_EnvelopeRoundTrip ==
    (/\ verifyOut.op = "verify"
     /\ signOut.op = "sign"
     /\ signOut.out.ok
     /\ verifyOut.token = signOut.out.v
     /\ verifyOut.keys = NoKeys
     /\ signOut.kid \in DOMAIN keys)
    => /\ verifyOut.result.valid
       /\ verifyOut.result.payload = ForceKid(signOut.receipt, signOut.kid)

\* C8: a validly signed envelope whose payload kid differs from its header
\* kid gets valid=False with a kid-mismatch error, which is neither the
\* signature-invalid nor the schema-invalid error.
C8_KidMismatchReported ==
    (/\ verifyOut.op = "verify"
     /\ Resolvable(keys, verifyOut.keys, verifyOut.token)
     /\ SignatureVerifies(verifyOut.token,
           DocumentedKey(keys, verifyOut.keys, HeaderKid(verifyOut.token).v))
     /\ PeacReceipt(PayloadOf(verifyOut.token))
     /\ PayloadOf(verifyOut.token).kid # HeaderKid(verifyOut.token))
    => /\ ~verifyOut.result.valid
       /\ verifyOut.result.error = "Kid mismatch"
       /\ verifyOut.result.error \notin SignatureInvalidErrors \cup SchemaInvalidErrors

\* C9: the gates run in a fixed order and the first failing one is reported:
\* signature, then schema, then the kid comparison; an envelope failing both
\* the signature and the schema check is reported as signature-invalid.
C9_GateOrder ==
    (/\ verifyOut.op = "verify"
     /\ Resolvable(keys, verifyOut.keys, verifyOut.token))
    => LET token == verifyOut.token
           result == verifyOut.result
           signatureOk == SignatureVerifies(token,
                             DocumentedKey(keys, verifyOut.keys, HeaderKid(token).v))
           schemaOk == PeacReceipt(PayloadOf(token))
       IN  /\ ~signatureOk => (~result.valid /\ result.error \in SignatureInvalidErrors)
           /\ (signatureOk /\ ~schemaOk)
                 => (~result.valid /\ result.error \in SchemaInvalidErrors)
           /\ (signatureOk /\ schemaOk /\ PayloadOf(token).kid # HeaderKid(token))
                 => (~result.valid /\ result.error = "Kid mismatch")

\* C10: the caller's key set is used when it holds the header kid, even if
\* the store holds it too; otherwise the store's key; when neither holds the
\* kid the result is valid=False with the key-not-found error.
C10_KeyResolution ==
    (/\ verifyOut.op = "verify"
     /\ ThreeParts(verifyOut.token)
     /\ Truthy(HeaderKid(verifyOut.token)))
    => LET token == verifyOut.token
           result == verifyOut.result
       IN  IF Resolvable(keys, verifyOut.keys, token)
           THEN result.valid =>
                   SignatureVerifies(token,
                      DocumentedKey(keys, verifyOut.keys, HeaderKid(token).v))
           ELSE ~result.valid /\ result.error = "Verification key not found"

(***************************************************************************)
(* Claims about sign_receipt                                               *)
(***************************************************************************)
\* C11: every envelope sign_receipt(payload, kid) returns has the protected
\* header {alg: EdDSA, kid: kid} and a payload whose kid is that same kid,
\* whatever kid the caller wrote in the payload.
C11_EnvelopeNamesSigningKid ==
    (signOut.op = "sign" /\ signOut.out.ok)
    => LET token == signOut.out.v
       IN  /\ ThreeParts(token)
           /\ B64UrlDecode(token[1]).v =
                  [alg |-> PyStr("EdDSA"), kid |-> PyStr(signOut.kid)]
           /\ PayloadOf(token).kid = PyStr(signOut.kid)

\* C11 witness: an envelope was issued under a kid other than the one the
\* caller wrote in the payload
C11_Witness ==
    /\ signOut.op = "sign"
    /\ signOut.out.ok
    /\ signOut.receipt.kid # PyStr(signOut.kid)
    /\ PayloadOf(signOut.out.v).kid = PyStr(signOut.kid)

\* the payload lacks a required field of the schema or holds it with the wrong type
ViolatesSchema(receipt) ==
    \/ \E f \in {"subject", "aipref", "enforcement"} :
          f \notin DOMAIN receipt \/ receipt[f].t # "dict"
    \/ \E f \in {"issued_at", "kid"} :
          f \notin DOMAIN receipt \/ receipt[f].t # "str"

\* C12: sign_receipt fails as a whole: when the payload violates the schema
\* or the kid is not in the key store it raises, returns no envelope, and
\* leaves the caller's payload as it was.
C12_SignFailsAtomically ==
    (/\ signOut.op = "sign"
     /\ (ViolatesSchema(signOut.receipt) \/ ~signOut.stored))
    => /\ ~signOut.out.ok
       /\ DOMAIN signOut.out = {"ok", "err"}
       /\ signOut.after = signOut.receipt

\* C12 witness: a key of the store was named, the payload violated the
\* schema, and the call raised
C12_Witness ==
    /\ signOut.op = "sign"
    /\ signOut.stored
    /\ CanSign(keys[signOut.kid])
    /\ ViolatesSchema(signOut.receipt)
    /\ ~signOut.out.ok

(***************************************************************************)
(* Claims about how verify_receipt reports failure                         *)
(***************************************************************************)
\* the failures a verifier has to expect of an envelope: not three parts, no
\* kid in the header, a kid no key is held for, a signature that does not
\* verify, a payload that violates the schema, a payload kid other than the
\* header kid
ExpectedFailure(store, callerKeys, token) ==
    \/ ~ThreeParts(token)
    \/ ~Truthy(HeaderKid(token))
    \/ ~Resolvable(store, callerKeys, token)
    \/ ~SignatureVerifies(token, DocumentedKey(store, callerKeys, HeaderKid(token).v))
    \/ ViolatesSchema(PayloadOf(token))
    \/ PayloadOf(token).kid # HeaderKid(token)

\* C13: verify_receipt never raises for an expected failure: each one gives
\* a returned result with valid=False and an error value.
C13_FailureIsReturned ==
    (/\ verifyOut.op = "verify"
     /\ ExpectedFailure(keys, verifyOut.keys, verifyOut.token))
    => /\ {"valid", "error"} \subseteq DOMAIN verifyOut.result
       /\ verifyOut.result.valid = FALSE
       /\ verifyOut.result.error # ""

\* C13 witness: a validly signed, schema-valid envelope whose payload kid is
\* not its header kid was answered with a result, valid=False and an error
C13_Witness ==
    /\ verifyOut.op = "verify"
    /\ Resolvable(keys, verifyOut.keys, verifyOut.token)
    /\ SignatureVerifies(verifyOut.token,
          DocumentedKey(keys, verifyOut.keys, HeaderKid(verifyOut.token).v))
    /\ ~ViolatesSchema(PayloadOf(verifyOut.token))
    /\ PayloadOf(verifyOut.token).kid # HeaderKid(verifyOut.token)
    /\ {"valid", "error"} \subseteq DOMAIN verifyOut.result
    /\ verifyOut.result.valid = FALSE
    /\ verifyOut.result.error # ""

(***************************************************************************)
(* Bulk verification through the agent tool (PeacReceiptTool)              *)
(***************************************************************************)
\* the line separator of the NDJSON body
NL == <<"\n">>

\* tool.py:119  "\n".join(receipts)
RECURSIVE Join(_)
Join(receipts) ==
    IF receipts = << >> THEN << >>
    ELSE IF Len(receipts) = 1 THEN <<receipts[1]>>
    ELSE <<receipts[1], NL>> \o Join(Tail(receipts))

\* tool.py:121-123  the request body: the caller's keys go along when given
BulkPayload(receipts, callerKeys) ==
    IF Truthy(callerKeys) THEN [ndjson |-> Join(receipts), keys |-> callerKeys]
    ELSE [ndjson |-> Join(receipts)]

\* the key store of the verification service
ServiceKeys == load_keys(<< >>, [k1 |-> Descriptor("OKP", "Ed25519", "pub1", "seed1")])

\* the service's verification of one envelope, taken alone
ServiceVerify(store, callerKeys, token) ==
    [valid |-> ~ExpectedFailure(store, callerKeys, token)]

\* POST /receipts/bulk-verify: one result per line of the body, in order
BulkService(request) ==
    LET lines == SelectSeq(request.ndjson, LAMBDA line : line # NL)
        callerKeys == IF "keys" \in DOMAIN request THEN request.keys ELSE NoKeys
        results == [i \in 1..Len(lines) |-> ServiceVerify(ServiceKeys, callerKeys, lines[i])]
        valid == Cardinality({i \in 1..Len(lines) : results[i].valid})
    IN  [total |-> Len(lines), valid |-> valid, invalid |-> Len(lines) - valid,
         results |-> results]

\* the ways the HTTP exchange can end
HttpOutcomes == {"ok", "RequestException", "JSONDecodeError"}

\* tool.py:160-186  _make_request: the response body, or an error dict
make_request(request, http) ==
    IF http = "ok" THEN BulkService(request)
    ELSE IF http = "RequestException" THEN [error |-> "HTTP request failed"]
    ELSE [error |-> "Invalid JSON response from server"]

\* dict.get(key, default) on a response
ResponseGet(response, key, default) ==
    IF key \in DOMAIN response THEN response[key] ELSE default

\* tool.py:115-133  _bulk_verify(receipts, keys): the JSON text it returns
bulk_verify(receipts, callerKeys, http) ==
    LET response == make_request(BulkPayload(receipts, callerKeys), http)
    IN  JsonText([total |-> ResponseGet(response, "total", 0),
                  valid |-> ResponseGet(response, "valid", 0),
                  invalid |-> ResponseGet(response, "invalid", 0),
                  results |-> ResponseGet(response, "results", << >>),
                  message |-> <<"Bulk verification complete", ResponseGet(response, "valid", 0),
                                ResponseGet(response, "total", 0)>>])

\* the envelopes a caller hands to bulk verification: a sound one, one with
\* an altered signature, a truncated one, one whose payload names another kid
BulkTokens ==
    LET sound == ForeignSigned(ProtectedHeader("k1"), BaseReceipt("k1"), "seed1")
    IN  {sound, TamperSignature(sound), Truncate(sound),
         ForeignSigned(ProtectedHeader("k1"), BaseReceipt("k2"), "seed1")}

\* the ordered inputs of a bulk verification
BulkInputs == UNION {[1..n -> BulkTokens] : n \in 0..MaxBulk}

\* tool.py:115-133  one call of _bulk_verify
BulkVerify ==
    /\ \E receipts \in BulkInputs, callerKeys \in CallerKeySets, http \in HttpOutcomes :
          bulkOut' = [op |-> "bulk_verify", receipts |-> receipts, keys |-> callerKeys,
                      http |-> http, out |-> bulk_verify(receipts, callerKeys, http)]
    /\ UNCHANGED <<nonceVars, raceVars, sigVars, envVars, tokenVars, breakerVars, enforceVars>>

NextBulk == BulkVerify

SpecBulk == Init /\ [][NextBulk]_vars

\* C14: bulk verification of an ordered sequence of envelopes reports total
\* equal to the number of inputs, valid + invalid = total, and the results
\* in the order of the inputs, each the result of verifying that envelope
\* alone; an invalid entry does not stop the entries after it.
C14_BulkFanOut ==
    bulkOut.op = "bulk_verify" =>
        LET report == bulkOut.out.v
            receipts == bulkOut.receipts
        IN  /\ report.total = Len(receipts)
            /\ report.valid + report.invalid = report.total
            /\ Len(report.results) = Len(receipts)
            /\ \A i \in 1..Len(receipts) :
                  report.results[i].valid =
                     ~ExpectedFailure(ServiceKeys, bulkOut.keys, receipts[i])

(***************************************************************************)
(* Claims about the key store                                              *)
(***************************************************************************)
\* C15: the key store is left unchanged by sign_receipt, by verify_receipt
\* (with or without keys of the caller) and by generate_keypair; a key given
\* to one verify_receipt call is therefore not held for a later call.
C15_StoreReadOnly ==
    [][(signOut' # signOut \/ verifyOut' # verifyOut \/ genOut' # genOut)
          => keys' = keys]_vars

\* C15 witness: verify_receipt was called with a key of the caller for the
\* envelope's kid, and the store holds keys but none for that kid
C15_Witness ==
    /\ verifyOut.op = "verify"
    /\ verifyOut.keys.t = "dict"
    /\ ThreeParts(verifyOut.token)
    /\ Truthy(HeaderKid(verifyOut.token))
    /\ HeaderKid(verifyOut.token).v \in DOMAIN verifyOut.keys.v
    /\ keys # << >>
    /\ HeaderKid(verifyOut.token).v \notin DOMAIN keys

\* the descriptor is one of an Ed25519 key and key is the key it describes
FromEd25519Descriptor(key_info, key) ==
    /\ key_info.kty = "OKP"
    /\ key_info.crv = "Ed25519"
    /\ key = [x |-> key_info.x, d |-> key_info.d]

\* C16: after load_keys every entry of the store came from a descriptor with
\* kty=OKP and crv=Ed25519; descriptors of any other type are skipped: they
\* add no entry and replace none.
C16_OnlyEd25519Loaded ==
    /\ [](\A kid \in DOMAIN keys :
            \E key_data \in KeysFiles :
               kid \in DOMAIN key_data /\ FromEd25519Descriptor(key_data[kid], keys[kid]))
    /\ [][keys' # keys =>
            \E key_data \in KeysFiles :
               \A kid \in DOMAIN keys' :
                  \/ /\ kid \in DOMAIN key_data
                     /\ FromEd25519Descriptor(key_data[kid], keys'[kid])
                  \/ /\ kid \in DOMAIN keys
                     /\ keys'[kid] = keys[kid]
                     /\ ~(/\ kid \in DOMAIN key_data
                          /\ key_data[kid].kty = "OKP"
                          /\ key_data[kid].crv = "Ed25519")]_vars

\* C16 witness: the keys file with an Ed25519 key k1 and a P-256 key k2 was
\* loaded into the empty store, which now holds k1 alone
C16_Witness ==
    /\ DOMAIN keys = {"k1"}
    /\ keys["k1"] = [x |-> "pub1", d |-> "seed1"]

(***************************************************************************)
(* The low-level scheme of the SDK next to sign.py and verify.py           *)
(***************************************************************************)
\* a caller signs a message with the SDK
SignMessage ==
    /\ \E message \in Messages, seed \in Seeds, nonce \in NonceStrings,
          timestamp \in Timestamps :
          signed' = [op |-> "sign_message", message |-> message, seed |-> seed,
                     nonce |-> nonce, timestamp |-> timestamp,
                     signature |-> sign_message(message, B64Encode(seed), nonce, timestamp)]
    /\ verOut' = NoVerify
    /\ UNCHANGED <<nonceVars, raceVars, envVars, toolVars, tokenVars, breakerVars, enforceVars>>

\* a caller verifies the last signature with the SDK
VerifyMessage ==
    /\ signed.op # "none"
    /\ \E message \in Messages, publicKey \in PublicKeys, nonce \in NonceStrings,
          timestamp \in Timestamps :
          verOut' = [op |-> "verify_message", message |-> message, publicKey |-> publicKey,
                     nonce |-> nonce, timestamp |-> timestamp, of |-> signed,
                     ret |-> verify_message(message, signed.signature, B64Encode(publicKey),
                                            nonce, timestamp)]
    /\ UNCHANGED <<nonceVars, raceVars, signed, envVars, toolVars, tokenVars, breakerVars, enforceVars>>

NextSdk == Sign \/ Verify \/ SignMessage \/ VerifyMessage

SpecSdk == Init /\ [][NextSdk]_vars

\* C17: every low-level signer and verifier works on message, nonce and
\* decimal timestamp concatenated with no separator, so a signature made by
\* sign or by sign_message is accepted by verify and by verify_message for
\* the same message, nonce and timestamp under the signer's public key.
C17_SignersAndVerifiersAgree ==
    (/\ verOut.op \in {"verify", "verify_message"}
     /\ verOut.of.op \in {"sign", "sign_message"}
     /\ verOut.message = verOut.of.message
     /\ verOut.nonce = verOut.of.nonce
     /\ verOut.timestamp = verOut.of.timestamp
     /\ verOut.publicKey = PublicOf(verOut.of.seed))
    => verOut.ret

\* C18: the canonical form is not injective: for two different (message,
\* nonce) pairs whose concatenation with the timestamp string is the same
\* text, the signature sign made for one is accepted by verify for the other.
C18_CanonicalFormCollides ==
    (/\ verOut.op = "verify"
     /\ verOut.of.op = "sign"
     /\ verOut.publicKey = PublicOf(verOut.of.seed)
     /\ <<verOut.message, verOut.nonce>> # <<verOut.of.message, verOut.of.nonce>>
     /\ verOut.message \o verOut.nonce \o Str(verOut.timestamp)
           = verOut.of.message \o verOut.of.nonce \o Str(verOut.of.timestamp))
    => verOut.ret

\* C18 witness: a signature for a message with an empty nonce was accepted
\* for the message without its last character and that character as nonce
C18_Witness ==
    /\ verOut.op = "verify"
    /\ verOut.of.op = "sign"
    /\ verOut.of.nonce = << >>
    /\ Len(verOut.nonce) = 1
    /\ verOut.of.message = verOut.message \o verOut.nonce
    /\ verOut.timestamp = verOut.of.timestamp
    /\ verOut.publicKey = PublicOf(verOut.of.seed)
    /\ verOut.ret

(***************************************************************************)
(* Claims about what NonceCache.add and NonceCache.clear leave behind      *)
(***************************************************************************)
\* C19: an add() that returns False leaves the ledger unchanged; a new
\* nonce rejected for a timestamp outside the window is not recorded, and
\* the next add() of that nonce with a timestamp inside the window returns
\* True.
C19_RejectedAddLeavesLedger ==
    /\ [][(lastAdd' # lastAdd /\ lastAdd'.op = "add" /\ ~lastAdd'.ret)
             => nonces' = nonces]_vars
    /\ []((lastAdd.op = "add" /\ ~lastAdd.ret /\ ~lastAdd.known)
             => lastAdd.nonce \notin DOMAIN nonces)
    /\ [][(/\ lastAdd.op = "add" /\ ~lastAdd.ret /\ ~lastAdd.known
            /\ lastAdd' # lastAdd
            /\ lastAdd'.op = "add"
            /\ lastAdd'.nonce = lastAdd.nonce
            /\ Abs(lastAdd'.now - lastAdd'.timestamp) <= 300000)
             => lastAdd'.ret]_vars

\* C19 witness: a nonce the ledger did not hold was rejected for a timestamp
\* outside the window, and the ledger, which holds other nonces, is without it
C19_Witness ==
    /\ lastAdd.op = "add"
    /\ ~lastAdd.known
    /\ Abs(lastAdd.now - lastAdd.timestamp) > 300000
    /\ ~lastAdd.ret
    /\ nonces # << >>
    /\ lastAdd.nonce \notin DOMAIN nonces

\* C20: clear() leaves the ledger empty, and the add() after it returns True
\* for every nonce with a timestamp inside the window, also for a nonce that
\* was admitted before the clear.
C20_ClearForgetsAll ==
    /\ [](lastAdd.op = "clear" => nonces = << >>)
    /\ [][(/\ lastAdd.op = "clear"
            /\ lastAdd'.op = "add"
            /\ Abs(lastAdd'.now - lastAdd'.timestamp) <= 300000)
             => lastAdd'.ret]_vars

\* C20 witness: a nonce was admitted right after a clear() that emptied a
\* ledger holding every nonce, this one among them
C20_Witness ==
    /\ lastAdd.op = "add"
    /\ lastAdd.cleared = Cardinality(Nonces)
    /\ lastAdd.ret
    /\ DOMAIN nonces = {lastAdd.nonce}

\* C21: ledger entries are never evicted: once add(n, t) has returned True,
\* n stays in the ledger through every later add and through any passage
\* of time, and add(n, .) returns False until clear() is called.
C21_NeverEvicted ==
    /\ \A n \in Nonces : accepts[n] >= 1 => n \in DOMAIN nonces
    /\ (lastAdd.op = "add" /\ lastAdd.prior >= 1) => ~lastAdd.ret

\* C21 witness: a nonce admitted more than 300000 ms ago is still in the
\* ledger and was rejected again, with a timestamp inside the window
C21_Witness ==
    /\ lastAdd.op = "add"
    /\ lastAdd.prior >= 1
    /\ lastAdd.nonce \in DOMAIN nonces
    /\ lastAdd.now - nonces[lastAdd.nonce] > 300000
    /\ Abs(lastAdd.now - lastAdd.timestamp) <= 300000
    /\ ~lastAdd.ret

(***************************************************************************)
(* Lite-mode tokens                                                        *)
(***************************************************************************)
\* the agents that ask for a token
AgentIds == {<<"a">>, <<"a", "1">>}

\* token.py:12  int(time.time()): the clock in whole seconds
Seconds(clock) == clock \div 1000

\* token.py:12  base64.b64encode(f"{agent_id}:{int(time.time())}".encode()).decode()
generate_token(agent_id, clock) ==
    B64Encode(Encode(agent_id \o <<":">> \o Str(Seconds(clock))))

\* a generate_token that hands the token out without recording it
IssuedAddNothing(issued, token) == issued

\* token.py:13  _issued_tokens.add(token)
IssuedAdd(issued, token) == issued \cup {token}

\* token.py:16-17  validate_token(token)
validate_token(issued, token) == token \in issued

\* the strings presented to validate_token: every token an agent can get at
\* some time, and a string that is no token
TokenStrings ==
    {generate_token(a, c) : a \in AgentIds, c \in ClockValues}
    \cup {B64Encode(Encode(<<"a">>))}

\* token.py:11-14  one call of generate_token
GenerateToken ==
    /\ \E agent_id \in AgentIds :
          LET token == generate_token(agent_id, now)
          IN  /\ issued_tokens' = IssuedAdd(issued_tokens, token)
              /\ returned' = returned \cup {token}
              /\ tokOut' = [op |-> "generate", agent_id |-> agent_id, token |-> token]
    /\ UNCHANGED <<nonceVars, raceVars, sigVars, envVars, toolVars, breakerVars, enforceVars>>

\* token.py:16-17  one call of validate_token
ValidateToken ==
    /\ \E token \in TokenStrings :
          tokOut' = [op |-> "validate", token |-> token,
                     ret |-> validate_token(issued_tokens, token)]
    /\ UNCHANGED <<nonceVars, raceVars, sigVars, envVars, toolVars, issued_tokens, returned,
                   breakerVars, enforceVars>>

NextToken == Tick \/ GenerateToken \/ ValidateToken

SpecToken == Init /\ [][NextToken]_vars

\* C22: validate_token(t) returns True exactly when t was returned by an
\* earlier generate_token call of the process; a string never issued is
\* rejected, and an issued token stays valid after any later calls: the
\* issued set only grows.
C22_ValidIffIssued ==
    /\ [](tokOut.op = "validate" => (tokOut.ret <=> tokOut.token \in returned))
    /\ [](\A token \in returned : validate_token(issued_tokens, token))
    /\ [][issued_tokens \subseteq issued_tokens']_vars

\* C22 witness: a token issued before other tokens were issued, and at an
\* earlier second, was found valid
C22_Witness ==
    /\ tokOut.op = "validate"
    /\ tokOut.ret
    /\ Cardinality(returned) >= 3
    /\ tokOut.token # generate_token(<<"a">>, now)
    /\ tokOut.token # generate_token(<<"a", "1">>, now)

(***************************************************************************)
(* CircuitBreaker: operations and claims                                   *)
(***************************************************************************)
\* what the wrapped function does when it is invoked
FuncOutcomes == {Ok("result"), Raise("failed")}

\* the clock values the model lets the breaker's clock reach
WallValues ==
    {StartSeconds + i + j * (DefaultTimeout - 1) : i \in 0..MaxWaits, j \in 0..MaxWaits}

\* time passes between calls: a second, or a second less than the timeout
Wait ==
    /\ \E d \in {1, DefaultTimeout - 1} :
          /\ wall + d \in WallValues
          /\ wall' = wall + d
    /\ UNCHANGED <<nonceVars, raceVars, sigVars, envVars, toolVars, tokenVars, breaker, brOut, enforceVars>>

\* decorator.py:26-37  one call of CircuitBreaker.call(func)
BreakerCall ==
    /\ \E outcome \in FuncOutcomes :
          LET r == breaker_call(breaker, outcome, wall)
          IN  /\ r.self.failures <= MaxFailures
              /\ breaker' = r.self
              /\ brOut' = [op |-> "call", at |-> wall, outcome |-> outcome,
                           invoked |-> r.invoked, result |-> r.result, before |-> breaker,
                           streakBefore |-> brOut.streak, failedAtBefore |-> brOut.failedAt,
                           streak |-> IF ~r.invoked THEN brOut.streak
                                      ELSE IF outcome.ok THEN 0 ELSE brOut.streak + 1,
                           failedAt |-> IF r.invoked /\ ~outcome.ok THEN wall
                                        ELSE brOut.failedAt]
    /\ UNCHANGED <<nonceVars, raceVars, sigVars, envVars, toolVars, tokenVars, wall, enforceVars>>

NextBreaker == Wait \/ BreakerCall

SpecBreaker == Init /\ [][NextBreaker]_vars

\* C23: after threshold failed calls with no successful call between them,
\* every call made less than timeout seconds after the last failure raises
\* "Circuit breaker open", does not invoke the wrapped function, and leaves
\* failures and last_fail_time as they were.
C23_OpenRejects ==
    (/\ brOut.op = "call"
     /\ brOut.streakBefore >= brOut.before.threshold
     /\ brOut.at - brOut.failedAtBefore < brOut.before.timeout)
    => /\ brOut.result = [ok |-> FALSE, err |-> "Circuit breaker open"]
       /\ ~brOut.invoked
       /\ breaker.failures = brOut.before.failures
       /\ breaker.last_fail_time = brOut.before.last_fail_time

\* C23 witness: exactly threshold calls had failed in a row and a call one
\* second before the end of the timeout was rejected
C23_Witness ==
    /\ brOut.op = "call"
    /\ brOut.streakBefore = brOut.before.threshold
    /\ brOut.at - brOut.failedAtBefore = brOut.before.timeout - 1
    /\ ~brOut.invoked
    /\ brOut.result = [ok |-> FALSE, err |-> "Circuit breaker open"]

\* C24: once timeout seconds have passed since the last failure of an open
\* breaker, the next call invokes the wrapped function; if it succeeds,
\* failures is 0 and the breaker is closed; if it fails, the breaker is open
\* again, with the timeout counted from that failure.
C24_HalfOpenAfterCooldown ==
    (/\ brOut.op = "call"
     /\ brOut.streakBefore >= brOut.before.threshold
     /\ brOut.at - brOut.failedAtBefore >= brOut.before.timeout)
    => /\ brOut.invoked
       /\ brOut.result = brOut.outcome
       /\ brOut.outcome.ok =>
             (breaker.failures = 0 /\ breaker.failures < breaker.threshold)
       /\ ~brOut.outcome.ok =>
             /\ breaker.failures >= breaker.threshold
             /\ breaker.last_fail_time = brOut.at

\* C24 witness: exactly timeout seconds after the last failure of an open
\* breaker the wrapped function was invoked and failed, and the breaker
\* counts its timeout from that failure
C24_Witness ==
    /\ brOut.op = "call"
    /\ brOut.streakBefore >= brOut.before.threshold
    /\ brOut.at - brOut.failedAtBefore = brOut.before.timeout
    /\ brOut.invoked
    /\ ~brOut.outcome.ok
    /\ breaker.last_fail_time = brOut.at

(***************************************************************************)
(* peac_enforce: the wrapper's loop, and claims                            *)
(***************************************************************************)
\* the retry budgets callers decorate with
RetryBudgets == -1..MaxRetries

\* decorator.py:46-47  wrapper(url) is called: attempt = 0
StartWrapper ==
    /\ wrapper.pc # "loop"
    /\ \E max_retries \in RetryBudgets :
          wrapper' = [pc |-> "loop", attempt |-> 0, max_retries |-> max_retries, tries |-> 0]
    /\ attemptOut' = NoAttempt
    /\ UNCHANGED <<nonceVars, raceVars, sigVars, envVars, toolVars, tokenVars, breakerVars>>

\* decorator.py:49-96  one pass through the loop body
Attempt ==
    /\ wrapper.pc = "loop"
    /\ wrapper.attempt <= wrapper.max_retries
    /\ \E enforce \in EnforceReplies, request \in RequestReplies, verifying \in VerifyReplies :
          LET r == wrapper_attempt(breaker, wrapper.attempt, wrapper.max_retries,
                                   enforce, request, verifying, wall)
          IN  /\ r.breaker.failures <= MaxFailures
              /\ breaker' = r.breaker
              /\ wrapper' =
                    IF r.next = "retry"
                    THEN [wrapper EXCEPT !.attempt = @ + 1, !.tries = @ + 1]
                    ELSE [pc |-> "done", attempt |-> wrapper.attempt,
                          max_retries |-> wrapper.max_retries,
                          tries |-> wrapper.tries + 1, out |-> r.out]
              /\ attemptOut' =
                    [op |-> "attempt", before |-> breaker, attempt |-> wrapper.attempt,
                     open |-> ~r.sent /\ r.out = Raise("Circuit breaker open"),
                     enforce |-> IF r.sent THEN enforce ELSE Raise("not sent"),
                     request |-> IF r.requested THEN request ELSE Raise("not called"),
                     verifying |-> IF r.verified THEN verifying ELSE "not called",
                     next |-> r.next, out |-> r.out]
    /\ UNCHANGED <<nonceVars, raceVars, sigVars, envVars, toolVars, tokenVars, wall, brOut>>

\* decorator.py:49  the loop condition fails: the wrapper returns None
LoopExit ==
    /\ wrapper.pc = "loop"
    /\ wrapper.attempt > wrapper.max_retries
    /\ wrapper' = [pc |-> "done", attempt |-> wrapper.attempt,
                   max_retries |-> wrapper.max_retries, tries |-> wrapper.tries,
                   out |-> Ok(PyNone)]
    /\ UNCHANGED <<nonceVars, raceVars, sigVars, envVars, toolVars, tokenVars, breakerVars,
                   attemptOut>>

NextEnforce == Wait \/ StartWrapper \/ Attempt \/ LoopExit

SpecEnforce == Init /\ [][NextEnforce]_vars

\* C25: with max_retries >= 0 the wrapper makes at most max_retries + 1
\* attempts and then returns the response or raises the last error; an
\* enforce response with status 402 raises PEACPaymentRequired on the
\* attempt where it occurs and is never retried.
C25_BoundedRetries ==
    wrapper.max_retries >= 0 =>
        /\ wrapper.tries <= wrapper.max_retries + 1
        /\ wrapper.pc = "done" => wrapper.out = attemptOut.out
        /\ (/\ attemptOut.op = "attempt"
            /\ attemptOut.enforce.ok
            /\ attemptOut.enforce.v.status = 402)
           => /\ attemptOut.next = "raise"
              /\ attemptOut.out = [ok |-> FALSE, err |-> "PEACPaymentRequired"]
              /\ wrapper.pc = "done"

\* the failure count after a pass is decided by the enforce call alone: one
\* more when it raised, 0 when it returned a response of any status, as
\* before when the open breaker rejected the pass
CountFollowsEnforce ==
    /\ (attemptOut.enforce.ok => breaker.failures = 0)
    /\ ((~attemptOut.enforce.ok /\ ~attemptOut.open)
           => breaker.failures = attemptOut.before.failures + 1)
    /\ (attemptOut.open
           => /\ breaker.failures = attemptOut.before.failures
              /\ breaker.last_fail_time = attemptOut.before.last_fail_time)

\* the pass used up a retry attempt: it did not return a response
ConsumedAttempt == attemptOut.next \in {"retry", "raise"}

C27_ResultShape ==
    verifyOut.op = "verify" =>
        LET result == verifyOut.result
        IN  IF result.valid
            THEN /\ {"header", "payload"} \subseteq DOMAIN result
                 /\ result.verification.signature = "valid"
                 /\ result.verification.schema = "valid"
                 /\ PyStr(result.verification.key_id) = HeaderKid(verifyOut.token)
            ELSE /\ DOMAIN result = {"valid", "error", "verification"}
                 /\ result.error # ""
                 /\ result.verification.signature = "invalid"
                 /\ DOMAIN result.verification = {"signature", "timestamp"}

\* C27 witness: an envelope that is not in three parts was answered with a
\* valid=False result of that shape
C27_Witness ==
    /\ verifyOut.op = "verify"
    /\ ~ThreeParts(verifyOut.token)
    /\ ~verifyOut.result.valid
    /\ DOMAIN verifyOut.result = {"valid", "error", "verification"}
    /\ verifyOut.result.verification.signature = "invalid"

====
